---------------------------- MODULE Spec2Model ----------------------------
(***************************************************************************)
(* Model of server/src/imageProcessing/process_image.py: the command-line  *)
(* dispatch of the script and process_image (open, EXIF transpose, colour  *)
(* normalisation, per-output proportional resize, JPEG save).              *)
(*                                                                         *)
(* The resize ratio is a Python float, so the arithmetic of lines 36-37 is *)
(* modelled as IEEE 754 binary64.  A positive float is a record            *)
(* [exp, m1, m2, m3]: its MantBits-bit significand is split into the limbs *)
(* m1 (the top MantBits - 2 * LimbBits bits, leading bit set), m2 and m3   *)
(* (LimbBits bits each), and its value is                                  *)
(*   (m1 * B^2 + m2 * B + m3) * 2^(exp - (MantBits - 1)),  B = 2^LimbBits. *)
(***************************************************************************)
EXTENDS Integers, Sequences, FiniteSets, TLC

\* Significand width of a Python float (IEEE 754 binary64).
MantBits == 53
\* Width of the two low limbs of a significand.
LimbBits == 18

---------------------------------------------------------------------------
(* Python float arithmetic on the values lines 36-37 produce.              *)

RECURSIVE Pow2(_)
Pow2(n) == IF n = 0 THEN 1 ELSE 2 * Pow2(n - 1)

LimbBase == Pow2(LimbBits)
TopBits == MantBits - 2 * LimbBits

\* Largest k >= 0 with den * 2^k <= num (num >= den >= 1).
RECURSIVE ShiftDown(_, _)
ShiftDown(num, den) == IF 2 * den <= num THEN 1 + ShiftDown(num, 2 * den) ELSE 0

\* Smallest k >= 0 with num * 2^k >= den (num, den >= 1).
RECURSIVE ShiftUp(_, _)
ShiftUp(num, den) == IF num >= den THEN 0 ELSE 1 + ShiftUp(2 * num, den)

\* Round-half-to-even of a significand: up is the rounding decision.  A carry
\* out of the top limb renormalises to 1.0 * 2^(e + 1).
RoundMant(e, m1, m2, m3, up) ==
    IF ~up THEN [exp |-> e, m1 |-> m1, m2 |-> m2, m3 |-> m3]
    ELSE IF m3 + 1 < LimbBase THEN [exp |-> e, m1 |-> m1, m2 |-> m2, m3 |-> m3 + 1]
    ELSE IF m2 + 1 < LimbBase THEN [exp |-> e, m1 |-> m1, m2 |-> m2 + 1, m3 |-> 0]
    ELSE IF m1 + 1 < Pow2(TopBits) THEN [exp |-> e, m1 |-> m1 + 1, m2 |-> 0, m3 |-> 0]
    ELSE [exp |-> e + 1, m1 |-> Pow2(TopBits - 1), m2 |-> 0, m3 |-> 0]

\* a / b for Python ints a, b >= 1: the correctly rounded quotient, by long
\* division of num / den in [1, 2) one limb at a time.
TrueDiv(a, b) ==
    LET down == IF a >= b THEN ShiftDown(a, b) ELSE 0
        up   == IF a >= b THEN 0 ELSE ShiftUp(a, b)
        num  == a * Pow2(up)
        den  == b * Pow2(down)
        t1   == num * Pow2(TopBits - 1)
        t2   == (t1 % den) * LimbBase
        t3   == (t2 % den) * LimbBase
        rem  == t3 % den
        m3   == t3 \div den
    IN  RoundMant(down - up, t1 \div den, t2 \div den, m3,
                  2 * rem > den \/ (2 * rem = den /\ m3 % 2 = 1))

\* x < y on positive floats.
FloatLess(x, y) ==
    \/ x.exp < y.exp
    \/ /\ x.exp = y.exp
       /\ \/ x.m1 < y.m1
          \/ x.m1 = y.m1 /\ x.m2 < y.m2
          \/ x.m1 = y.m1 /\ x.m2 = y.m2 /\ x.m3 < y.m3

\* Python's min(x, y): y when y < x, else x.
FloatMin(x, y) == IF FloatLess(y, x) THEN y ELSE x

\* n * x for a Python int n >= 1 and a float x: the exact product limb by
\* limb, then rounded back to MantBits bits (k bits are dropped).
IntTimesFloat(n, x) ==
    LET p3   == n * x.m3
        p2   == n * x.m2 + (p3 \div LimbBase)
        p1   == n * x.m1 + (p2 \div LimbBase)
        l3   == p3 % LimbBase
        l2   == p2 % LimbBase
        k    == ShiftDown(p1, Pow2(TopBits - 1))
        d    == Pow2(k)
        m3   == ((l2 % d) * LimbBase + l3) \div d
        drop == l3 % d
    IN  RoundMant(x.exp + k, p1 \div d, ((p1 % d) * LimbBase + l2) \div d, m3,
                  2 * drop > d \/ (2 * drop = d /\ m3 % 2 = 1))

\* int(x) for a positive float below 2^TopBits: truncation toward zero.
FloatToInt(x) ==
    IF x.exp < 0 THEN 0 ELSE x.m1 \div Pow2(TopBits - 1 - x.exp)

\* Lines 36-37: ratio = min(M / W, M / H); (int(W * ratio), int(H * ratio)).
Ratio(w, h, m) == FloatMin(TrueDiv(m, w), TrueDiv(m, h))

NewSize(w, h, m) ==
    LET ratio == Ratio(w, h, m)
    IN  <<FloatToInt(IntTimesFloat(w, ratio)), FloatToInt(IntTimesFloat(h, ratio))>>

---------------------------------------------------------------------------
(* Bounds of the model.                                                    *)

\* Largest width or height of a decoded image, and largest requested height.
MaxSide == 2
\* Longest --outputs list.
MaxOutputs == 2
\* Largest width, height and max dimension of the resize-only specification.
MaxDim == 24

---------------------------------------------------------------------------
(* Values.  An optional value (Python None or a value) is the empty        *)
(* sequence or a one-element sequence.                                     *)

NoneVal == <<>>
Some(v) == <<v>>
IsNone(o) == o = <<>>
Val(o) == o[1]

\* Python truthiness of an optional int and of an optional string.
TruthyInt(o) == ~IsNone(o) /\ Val(o) # 0
TruthyStr(o) == ~IsNone(o) /\ Val(o) # ""

\* output['path'] of the k-th element of an --outputs list.
OutPath(k) == "out" \o ToString(k) \o ".jpg"

\* output.get('height'): None (absent or null) or a non-negative int.
Heights(max) == {NoneVal} \cup {Some(n) : n \in 0..max}

\* The lists json.loads can return for --outputs: the k-th descriptor has
\* its own path and any height.
OutputLists(maxLen, maxHeight) ==
    UNION {[1..n -> Heights(maxHeight)] : n \in 0..maxLen}

Descriptors(hs) ==
    [k \in 1..Len(hs) |-> [path |-> OutPath(k), height |-> hs[k]]]

\* The --outputs option as typed: absent, the empty string, text that is
\* not JSON, or the JSON text of a list of descriptors.
OutputsArgs ==
    {[kind |-> k, heights |-> <<>>] : k \in {"absent", "empty", "invalid"}}
    \cup {[kind |-> "list", heights |-> hs] : hs \in OutputLists(MaxOutputs, MaxSide)}

\* The --max_dimension option as typed: absent, not an integer, an integer.
MaxDimensionArgs ==
    {[kind |-> k, n |-> 0] : k \in {"absent", "invalid"}}
    \cup {[kind |-> "int", n |-> n] : n \in 0..MaxSide}

\* A command line.  The first positional argument is input_path, so
\* output_path is only present when input_path is.
ArgvSet ==
    {a \in [input_path    : {NoneVal, Some("in.heic")},
            outputs       : OutputsArgs,
            output_path   : {NoneVal, Some(""), Some("legacy.jpg")},
            max_dimension : MaxDimensionArgs] :
        IsNone(a.input_path) => IsNone(a.output_path)}

\* Colour modes of a decoded image; transparency is 'transparency' in
\* img.info (modelled for palette images only).
Modes == {"RGB", "L", "RGBA", "LA", "P", "CMYK", "I;16"}

\* EXIF orientations modelled: 1 (upright), 3 (rotated 180), 6 (rotated 90).
Orientations == {1, 3, 6}

\* What Image.open can decode.
Images ==
    {im \in [size : (1..MaxSide) \X (1..MaxSide), mode : Modes,
             transparency : BOOLEAN, orientation : Orientations] :
        im.transparency => im.mode = "P"}

NoImage == [size |-> <<0, 0>>, mode |-> "", transparency |-> FALSE, orientation |-> 1]

\* Exceptions in flight.
NoExc == [type |-> "None", code |-> 0]
SystemExit(c) == [type |-> "SystemExit", code |-> c]
Raised(t) == [type |-> t, code |-> 0]

\* isinstance(e, Exception): SystemExit derives from BaseException only.
IsException(e) == e.type \notin {"None", "SystemExit"}

---------------------------------------------------------------------------
(* Library behaviour the script relies on.                                 *)

\* argparse with type=int: the parsed --max_dimension.
ParsedMaxDimension(a) == IF a.kind = "int" THEN Some(a.n) ELSE NoneVal

\* args.outputs: None when the option is absent, else the text.
OutputsGiven(a) == a.kind # "absent"
OutputsTruthy(a) == a.kind \in {"invalid", "list"}

\* json.loads(args.outputs).
JsonLoads(a) == Descriptors(a.heights)

\* ImageOps.exif_transpose: orientations 5..8 swap width and height; the
\* result carries no orientation tag.
ExifTranspose(im) ==
    [im EXCEPT !.size = IF im.orientation \in 5..8
                        THEN <<im.size[2], im.size[1]>> ELSE im.size,
               !.orientation = 1]

\* Lines 22-23.
NeedsConvert(im) ==
    im.mode \in {"RGBA", "LA"} \/ (im.mode = "P" /\ im.transparency)

ConvertMode(im) ==
    IF NeedsConvert(im) THEN [im EXCEPT !.mode = "RGB"] ELSE im

\* Modes Pillow's JPEG encoder writes (JpegImagePlugin.RAWMODE).
JpegModes == {"1", "L", "RGB", "RGBX", "CMYK", "YCbCr"}

\* Mutant of NeedsResize: ">=" for ">" in line 35.
MutNeedsResize(w, h, md) ==
    TruthyInt(md) /\ (w >= Val(md) \/ h >= Val(md))

\* Lines 34-35.
NeedsResize(w, h, md) ==
    TruthyInt(md) /\ (w > Val(md) \/ h > Val(md))

\* Image.resize rejects a size with a side below 1 (ValueError).
ResizeAccepts(size) == size[1] >= 1 /\ size[2] >= 1

---------------------------------------------------------------------------
(* State.                                                                  *)

VARIABLES
    argv,             \* the command line
    pc,               \* position in the script
    outputs,          \* process_image's outputs parameter
    called,           \* process_image was called
    exists,           \* what os.path.exists(input_path) returned (line 13)
    img,              \* img after lines 17-23
    original_width,   \* line 25
    original_height,  \* line 25
    i,                \* index of the current output (1-based, 0 before the loop)
    max_dimension,    \* line 29
    new_size,         \* line 37 (<<>> until computed for the current output)
    current_img,      \* lines 33, 38
    log,              \* resize and save calls and success messages, in order
    stderr,           \* messages written to standard error
    exc,              \* exception being raised
    exitCode          \* process exit code (-1 while running)

vars == <<argv, pc, outputs, called, exists, img, original_width, original_height, i,
          max_dimension, new_size, current_img, log, stderr, exc, exitCode>>

Running == -1

Init ==
    /\ argv \in ArgvSet
    /\ pc = "parse_args"
    /\ outputs = <<>>
    /\ called = FALSE
    /\ exists = "unchecked"
    /\ img = NoImage
    /\ original_width = 0
    /\ original_height = 0
    /\ i = 0
    /\ max_dimension = NoneVal
    /\ new_size = <<>>
    /\ current_img = NoImage
    /\ log = <<>>
    /\ stderr = <<>>
    /\ exc = NoExc
    /\ exitCode = Running

\* Raise e at top level or leave the try block with it.
Raise(e, to) ==
    /\ exc' = e
    /\ pc' = to

\* Line 56: parser.parse_args().  A missing input_path or a non-integer
\* --max_dimension is a usage error: argparse prints it and exits with 2.
ParseArgs ==
    /\ pc = "parse_args"
    /\ IF IsNone(argv.input_path) \/ argv.max_dimension.kind = "invalid"
       THEN /\ stderr' = Append(stderr, "usage")
            /\ Raise(SystemExit(2), "unwind")
       ELSE /\ pc' = "dispatch"
            /\ UNCHANGED <<stderr, exc>>
    /\ UNCHANGED <<argv, outputs, called, exists, img, original_width, original_height, i,
                   max_dimension, new_size, current_img, log, exitCode>>

\* Lines 58-60: --outputs is truthy.  json.loads is outside any try.
DispatchOutputs ==
    /\ pc = "dispatch"
    /\ OutputsTruthy(argv.outputs)
    /\ IF argv.outputs.kind = "invalid"
       THEN /\ Raise(Raised("JSONDecodeError"), "unwind")
            /\ UNCHANGED <<outputs, called>>
       ELSE /\ outputs' = JsonLoads(argv.outputs)
            /\ called' = TRUE
            /\ pc' = "check_exists"
            /\ UNCHANGED exc
    /\ UNCHANGED <<argv, exists, img, original_width, original_height, i, max_dimension,
                   new_size, current_img, log, stderr, exitCode>>

\* Mutant of DispatchLegacy: --max_dimension is not passed on.
MutDispatchLegacy ==
    /\ pc = "dispatch"
    /\ ~OutputsTruthy(argv.outputs)
    /\ TruthyStr(argv.output_path)
    /\ outputs' = <<[path |-> Val(argv.output_path), height |-> NoneVal]>>
    /\ called' = TRUE
    /\ pc' = "check_exists"
    /\ UNCHANGED <<argv, exists, img, original_width, original_height, i, max_dimension,
                   new_size, current_img, log, stderr, exc, exitCode>>

\* Lines 61-62: legacy single-output mode.
DispatchLegacy ==
    /\ pc = "dispatch"
    /\ ~OutputsTruthy(argv.outputs)
    /\ TruthyStr(argv.output_path)
    /\ outputs' = <<[path |-> Val(argv.output_path),
                    height |-> ParsedMaxDimension(argv.max_dimension)]>>
    /\ called' = TRUE
    /\ pc' = "check_exists"
    /\ UNCHANGED <<argv, exists, img, original_width, original_height, i, max_dimension,
                   new_size, current_img, log, stderr, exc, exitCode>>

\* Lines 63-65.
DispatchNone ==
    /\ pc = "dispatch"
    /\ ~OutputsTruthy(argv.outputs)
    /\ ~TruthyStr(argv.output_path)
    /\ stderr' = Append(stderr, "Error: Must provide either --outputs or output_path")
    /\ Raise(SystemExit(1), "unwind")
    /\ UNCHANGED <<argv, outputs, called, exists, img, original_width, original_height, i,
                   max_dimension, new_size, current_img, log, exitCode>>

\* Mutant of CheckExists: the message is printed but sys.exit(1) is missing.
MutCheckExists ==
    /\ pc = "check_exists"
    /\ \E found \in BOOLEAN :
          /\ exists' = (IF found THEN "True" ELSE "False")
          /\ stderr' = (IF found THEN stderr
                        ELSE Append(stderr, "Error: Input file not found"))
    /\ pc' = "open"
    /\ UNCHANGED <<argv, outputs, called, img, original_width, original_height, i,
                   max_dimension, new_size, current_img, log, exc, exitCode>>

\* Lines 13-15: os.path.exists(input_path).
CheckExists ==
    /\ pc = "check_exists"
    /\ \E found \in BOOLEAN :
          IF found
          THEN /\ exists' = "True"
               /\ pc' = "open"
               /\ UNCHANGED <<stderr, exc>>
          ELSE /\ exists' = "False"
               /\ stderr' = Append(stderr, "Error: Input file not found")
               /\ Raise(SystemExit(1), "except")
    /\ UNCHANGED <<argv, outputs, called, img, original_width, original_height, i,
                   max_dimension, new_size, current_img, log, exitCode>>

\* Line 17 fails: the file is not an image Pillow can decode.
OpenFails ==
    /\ pc = "open"
    /\ Raise(Raised("UnidentifiedImageError"), "except")
    /\ UNCHANGED <<argv, outputs, called, exists, img, original_width, original_height, i,
                   max_dimension, new_size, current_img, log, stderr, exitCode>>

\* Lines 17-25: open, EXIF transpose, colour normalisation, read the size.
OpenImage ==
    /\ pc = "open"
    /\ \E file \in Images :
          LET im == ConvertMode(ExifTranspose(file))
          IN  /\ img' = im
              /\ original_width' = im.size[1]
              /\ original_height' = im.size[2]
    /\ pc' = "loop"
    /\ UNCHANGED <<argv, outputs, called, exists, i, max_dimension, new_size, current_img,
                   log, stderr, exc, exitCode>>

\* Mutant of NextOutput: current_img = img is done once, before the loop,
\* so an output starts from the image the previous output left.
MutNextOutput ==
    /\ pc = "loop"
    /\ IF i < Len(outputs)
       THEN /\ i' = i + 1
            /\ max_dimension' = outputs[i + 1].height
            /\ current_img' = (IF i = 0 THEN img ELSE current_img)
            /\ new_size' = <<>>
            /\ pc' = "resize"
            /\ UNCHANGED exitCode
       ELSE /\ exitCode' = 0
            /\ pc' = "exited"
            /\ UNCHANGED <<i, max_dimension, current_img, new_size>>
    /\ UNCHANGED <<argv, outputs, called, exists, img, original_width, original_height,
                   log, stderr, exc>>

\* Lines 27-33: the next output, or the end of the loop and of the script.
NextOutput ==
    /\ pc = "loop"
    /\ IF i < Len(outputs)
       THEN /\ i' = i + 1
            /\ max_dimension' = outputs[i + 1].height
            /\ current_img' = img
            /\ new_size' = <<>>
            /\ pc' = "resize"
            /\ UNCHANGED exitCode
       ELSE /\ exitCode' = 0
            /\ pc' = "exited"
            /\ UNCHANGED <<i, max_dimension, current_img, new_size>>
    /\ UNCHANGED <<argv, outputs, called, exists, img, original_width, original_height,
                   log, stderr, exc>>

\* Lines 34-38.
Resize ==
    /\ pc = "resize"
    /\ IF NeedsResize(original_width, original_height, max_dimension)
       THEN LET size == NewSize(original_width, original_height, Val(max_dimension))
                ok   == ResizeAccepts(size)
            IN  /\ new_size' = size
                /\ log' = Append(log, [op |-> "resize", k |-> i, size |-> size,
                                       mode |-> img.mode, ok |-> ok])
                /\ IF ok
                   THEN /\ current_img' = [img EXCEPT !.size = size]
                        /\ pc' = "save"
                        /\ UNCHANGED exc
                   ELSE /\ Raise(Raised("ValueError"), "except")
                        /\ UNCHANGED current_img
       ELSE /\ pc' = "save"
            /\ UNCHANGED <<new_size, current_img, log, exc>>
    /\ UNCHANGED <<argv, outputs, called, exists, img, original_width, original_height, i,
                   max_dimension, stderr, exitCode>>

\* Mutant of Save: the success message is not inside the loop.
MutSave ==
    /\ pc = "save"
    /\ \E io_ok \in BOOLEAN :
          LET ok == current_img.mode \in JpegModes /\ io_ok
          IN  /\ log' = Append(log, [op |-> "save", k |-> i, size |-> current_img.size,
                                     mode |-> current_img.mode, ok |-> ok])
              /\ IF ok
                 THEN /\ pc' = "loop"
                      /\ UNCHANGED exc
                 ELSE Raise(Raised("OSError"), "except")
    /\ UNCHANGED <<argv, outputs, called, exists, img, original_width, original_height, i,
                   max_dimension, new_size, current_img, stderr, exitCode>>

\* Line 41: current_img.save(output_path, "JPEG", quality=85).  The encoder
\* refuses a mode it cannot write; writing the file can fail as well.
Save ==
    /\ pc = "save"
    /\ \E io_ok \in BOOLEAN :
          LET ok == current_img.mode \in JpegModes /\ io_ok
          IN  /\ log' = Append(log, [op |-> "save", k |-> i, size |-> current_img.size,
                                     mode |-> current_img.mode, ok |-> ok])
              /\ IF ok
                 THEN /\ pc' = "print"
                      /\ UNCHANGED exc
                 ELSE Raise(Raised("OSError"), "except")
    /\ UNCHANGED <<argv, outputs, called, exists, img, original_width, original_height, i,
                   max_dimension, new_size, current_img, stderr, exitCode>>

\* Line 42.
PrintSuccess ==
    /\ pc = "print"
    /\ log' = Append(log, [op |-> "print", k |-> i, size |-> current_img.size,
                           mode |-> current_img.mode, ok |-> TRUE])
    /\ pc' = "loop"
    /\ UNCHANGED <<argv, outputs, called, exists, img, original_width, original_height, i,
                   max_dimension, new_size, current_img, stderr, exc, exitCode>>

\* Mutant of ExceptClause: the handler exits with sys.exit(0).
MutExceptClauseExitZero ==
    /\ pc = "except"
    /\ IF IsException(exc)
       THEN /\ stderr' = Append(stderr, "Error processing image")
            /\ exc' = SystemExit(0)
       ELSE UNCHANGED <<stderr, exc>>
    /\ pc' = "unwind"
    /\ UNCHANGED <<argv, outputs, called, exists, img, original_width, original_height, i,
                   max_dimension, new_size, current_img, log, exitCode>>

\* Mutant of ExceptClause: the try is inside the loop, so a failed output is
\* reported and the loop goes on with the next one.
MutExceptClauseContinue ==
    /\ pc = "except"
    /\ IF IsException(exc) /\ i >= 1
       THEN /\ stderr' = Append(stderr, "Error processing image")
            /\ exc' = NoExc
            /\ pc' = "loop"
       ELSE /\ stderr' = (IF IsException(exc)
                          THEN Append(stderr, "Error processing image") ELSE stderr)
            /\ exc' = SystemExit(1)
            /\ pc' = "unwind"
    /\ UNCHANGED <<argv, outputs, called, exists, img, original_width, original_height, i,
                   max_dimension, new_size, current_img, log, exitCode>>

\* Lines 44-46: except Exception.  SystemExit is not an Exception and passes
\* through; anything else is reported and replaced by sys.exit(1).
ExceptClause ==
    /\ pc = "except"
    /\ IF IsException(exc)
       THEN /\ stderr' = Append(stderr, "Error processing image")
            /\ exc' = SystemExit(1)
       ELSE UNCHANGED <<stderr, exc>>
    /\ pc' = "unwind"
    /\ UNCHANGED <<argv, outputs, called, exists, img, original_width, original_height, i,
                   max_dimension, new_size, current_img, log, exitCode>>

\* The interpreter ends the process: SystemExit gives its code, any other
\* uncaught exception a traceback and exit code 1.
Unwind ==
    /\ pc = "unwind"
    /\ IF exc.type = "SystemExit"
       THEN /\ exitCode' = exc.code
            /\ UNCHANGED stderr
       ELSE /\ exitCode' = 1
            /\ stderr' = Append(stderr, "Traceback")
    /\ pc' = "exited"
    /\ UNCHANGED <<argv, outputs, called, exists, img, original_width, original_height, i,
                   max_dimension, new_size, current_img, log, exc>>

Next ==
    \/ ParseArgs
    \/ DispatchOutputs
    \/ DispatchLegacy
    \/ DispatchNone
    \/ CheckExists
    \/ OpenFails
    \/ OpenImage
    \/ NextOutput
    \/ Resize
    \/ Save
    \/ PrintSuccess
    \/ ExceptClause
    \/ Unwind

Spec == Init /\ [][Next]_vars

---------------------------------------------------------------------------
(* The output loop alone, on larger images: process_image after line 25,   *)
(* called with one descriptor on an existing RGB image.                    *)

InitResize ==
    \E w \in 1..MaxDim, h \in 1..MaxDim, md \in Heights(MaxDim) :
        /\ argv = [input_path |-> Some("in.heic"),
                   outputs |-> [kind |-> "list", heights |-> <<md>>],
                   output_path |-> NoneVal,
                   max_dimension |-> [kind |-> "absent", n |-> 0]]
        /\ pc = "loop"
        /\ outputs = Descriptors(<<md>>)
        /\ called = TRUE
        /\ exists = "True"
        /\ img = [size |-> <<w, h>>, mode |-> "RGB", transparency |-> FALSE,
                  orientation |-> 1]
        /\ original_width = w
        /\ original_height = h
        /\ i = 0
        /\ max_dimension = NoneVal
        /\ new_size = <<>>
        /\ current_img = NoImage
        /\ log = <<>>
        /\ stderr = <<>>
        /\ exc = NoExc
        /\ exitCode = Running

NextResize ==
    \/ NextOutput
    \/ Resize
    \/ Save
    \/ PrintSuccess
    \/ ExceptClause
    \/ Unwind

SpecResize == InitResize /\ [][NextResize]_vars

---------------------------------------------------------------------------
(* Properties.                                                             *)

Max2(a, b) == IF a >= b THEN a ELSE b
Min2(a, b) == IF a <= b THEN a ELSE b
Abs(n) == IF n >= 0 THEN n ELSE -n

Events(op) == {n \in 1..Len(log) : log[n].op = op}
Failed == {n \in 1..Len(log) : ~log[n].ok}
Exited == pc = "exited"

\* C1: whenever a new size has been computed for a positive max dimension M
\* below the larger input side, its larger side is exactly M, its other side
\* is at most M, and its smaller side is within 1 of min(W, H) * M / max(W, H).
C1_LargerSideIsMax ==
    (new_size # <<>> /\ TruthyInt(max_dimension)
        /\ Max2(original_width, original_height) > Val(max_dimension)) =>
        LET m     == Val(max_dimension)
            big   == Max2(original_width, original_height)
            small == Min2(original_width, original_height)
        IN  /\ Max2(new_size[1], new_size[2]) = m
            /\ Min2(new_size[1], new_size[2]) <= m
            /\ Abs(Min2(new_size[1], new_size[2]) * big - small * m) < big

\* The descriptor asks for no downscale of the input.
NoResizeCase(md) ==
    IsNone(md) \/ (original_width <= Val(md) /\ original_height <= Val(md))

\* C2: an output whose descriptor has no max dimension, or a max dimension M
\* with W <= M and H <= M, is never resized and is saved at the input size.
C2_NoUpscale ==
    \A n \in 1..Len(log) :
        NoResizeCase(outputs[log[n].k].height) =>
            /\ log[n].op # "resize"
            /\ log[n].size = <<original_width, original_height>>

\* C2 witness: an image whose larger side equals the max dimension was saved.
C2_Witness ==
    /\ Exited
    /\ exitCode = 0
    /\ ~IsNone(outputs[1].height)
    /\ Max2(original_width, original_height) = Val(outputs[1].height)
    /\ original_width # original_height
    /\ \E n \in Events("save") : log[n].ok

\* An error was reported, a library call failed or the input was missing.
ErrorOccurred == stderr # <<>> \/ Failed # {} \/ exists = "False"

\* C3 as stated: a finished run has exit code 1 if any error occurred and
\* exit code 0 otherwise.
C3_ExitOneIffError ==
    Exited => exitCode = (IF ErrorOccurred THEN 1 ELSE 0)

\* The command line is one argparse rejects.
UsageError == IsNone(argv.input_path) \/ argv.max_dimension.kind = "invalid"

\* C3 amended: a finished run has exit code 2 when the argument parser
\* rejected the command line (input_path missing, --max_dimension not an
\* integer), exit code 1 after any other error, and exit code 0 otherwise.
C3_ExitCodes ==
    /\ Exited => exitCode = (IF UsageError THEN 2 ELSE IF ErrorOccurred THEN 1 ELSE 0)
    /\ UsageError => (~called /\ (pc # "parse_args" => ErrorOccurred))
    /\ ~Exited => exitCode = Running

\* C3 witness: runs have ended after a failed save, and so with exit code 1.
C3_Witness ==
    /\ Exited
    /\ exitCode = 1
    /\ \E n \in Failed : log[n].op = "save"

\* C4: once the input path was found missing, the only output is the one
\* message on standard error, no image is opened, nothing is resized or
\* saved, and the run is on its way out with exit code 1.
C4_MissingInput ==
    exists = "False" =>
        /\ stderr = <<"Error: Input file not found">>
        /\ img = NoImage
        /\ log = <<>>
        /\ pc \in {"except", "unwind", "exited"}
        /\ exc = SystemExit(1)
        /\ Exited => exitCode = 1

\* C4 witness: such a run has ended, with two outputs requested.
C4_Witness == exists = "False" /\ Exited /\ Len(outputs) = 2

\* C5: a failed resize or save is the last call of the run: nothing is
\* resized, saved or reported after it, no call is made twice for the same
\* output, and the run ends with exit code 1.
C5_FailureAborts ==
    /\ \A n \in Failed :
          /\ n = Len(log)
          /\ pc \in {"except", "unwind", "exited"}
          /\ Exited => exitCode = 1
    /\ \A m, n \in 1..Len(log) :
          m < n => /\ log[m].k <= log[n].k
                   /\ <<log[m].op, log[m].k>> # <<log[n].op, log[n].k>>

\* C5 witness: the first of two outputs failed and the run has ended.
C5_Witness ==
    /\ Exited
    /\ Len(outputs) = 2
    /\ \E n \in Failed : log[n].k = 1

\* The size the resize contract gives an output on its own.
ExpectedSize(w, h, md) ==
    IF NeedsResize(w, h, md) THEN NewSize(w, h, Val(md)) ELSE <<w, h>>

\* C6: every resize and every save of an output uses the size computed from
\* the orientation-corrected input size and that output's own max dimension.
C6_OutputsIndependent ==
    /\ img # NoImage => img.size = <<original_width, original_height>>
    /\ \A n \in 1..Len(log) :
          log[n].size = ExpectedSize(original_width, original_height,
                                     outputs[log[n].k].height)

\* C6 witness: a downscaled first output is followed by a saved second
\* output of another size.
C6_Witness ==
    \E m, n \in Events("save") :
        /\ log[m].k = 1 /\ log[n].k = 2 /\ log[n].ok
        /\ log[m].size # <<original_width, original_height>>
        /\ log[n].size # log[m].size

\* C7: the image handed to the JPEG save is in a mode the encoder writes.
C7_SaveModeAccepted ==
    pc = "save" => current_img.mode \in JpegModes

\* C8: a computed new size has width and height at least 1.
C8_NewSizePositive ==
    new_size # <<>> => (new_size[1] >= 1 /\ new_size[2] >= 1)

\* The saves and success messages of the run, in order.
SavesAndPrints == SelectSeq(log, LAMBDA e : e.op \in {"save", "print"})

AllSaved ==
    /\ img # NoImage
    /\ \A k \in 1..Len(outputs) : \E n \in Events("save") : log[n].k = k /\ log[n].ok

Dispatched == ~UsageError /\ pc \notin {"parse_args", "dispatch"}

LegacyOutputs ==
    <<[path |-> Val(argv.output_path),
       height |-> ParsedMaxDimension(argv.max_dimension)]>>

NeverCalled ==
    /\ ~called
    /\ log = <<>>
    /\ Dispatched => stderr = <<"Error: Must provide either --outputs or output_path">>
    /\ (Dispatched /\ Exited) => exitCode = 1

DispatchBy(outputsGiven, pathGiven) ==
    /\ (outputsGiven /\ called) =>
          /\ argv.outputs.kind = "list"
          /\ outputs = JsonLoads(argv.outputs)
    /\ (~outputsGiven /\ pathGiven /\ Dispatched) =>
          /\ called
          /\ outputs = LegacyOutputs
          /\ argv.max_dimension.kind = "absent" => Events("resize") = {}
    /\ (~outputsGiven /\ ~pathGiven) => NeverCalled

=============================================================================
